---- MODULE Spec2Model ----
(***************************************************************************)
(* Model of the region-update server of mini-display (src/src/main.cpp).  *)
(*                                                                         *)
(* One handler process runs loop(): it accepts a client, waits for data,   *)
(* reads the region count, then for every region reads an 8-byte header,   *)
(* validates it, fills updateBuffer row by row through readExactBytes,     *)
(* swaps the bytes of every pixel and calls tft.pushImage; after the last  *)
(* region it writes "OK", drains the input and stops the client.           *)
(*                                                                         *)
(* The environment is the client (it connects and sends bytes) and the     *)
(* clock.  The sketch is a cooperative task: the network stack runs only   *)
(* while the sketch is suspended in delay() or yield() (main.cpp:50, 67,   *)
(* 132, 137) or between two runs of loop(), so received bytes become       *)
(* available at those points only.  millis() advances at any time.         *)
(*                                                                         *)
(* The value of a byte is chosen when the handler reads it: the handler    *)
(* cannot look at a byte before client.read(), so the stream is kept as    *)
(* the number of available bytes.  A deadline is kept as the boolean       *)
(* "millis() has reached timeout" (expired).                               *)
(*                                                                         *)
(* Spec follows one connection byte by byte, FairSpec adds the fairness    *)
(* of the handler and of the clock, GeomSpec follows one region of every   *)
(* width and height up to MaxDim row by row, and MultiSpec serves          *)
(* connection after connection over the same updateBuffer.                 *)
(***************************************************************************)
EXTENDS Integers, Sequences, FiniteSets, TLC

\* ------------------------------------------------------------- bounds
\* Most bytes the network stack holds for the sketch at one time.
MaxAvail == 1

\* Largest width and height sent in the headers of the geometry runs.
MaxDim == 33

\* Most connections that wait in the server while the sketch is busy.
MaxBacklog == 1

\* ------------------------------------------------ program constants
MAX_CHUNK_SIZE == 32
DISPLAY_WIDTH == 240
DISPLAY_HEIGHT == 240
MAX_REGIONS == 100
META_LEN == 8

\* Size of updateBuffer in bytes: uint16_t[MAX_CHUNK_SIZE * MAX_CHUNK_SIZE].
BufBytes == 2 * (MAX_CHUNK_SIZE * MAX_CHUNK_SIZE)

\* ------------------------------------------------ inputs of the client
\* Values of the region-count byte (uint8_t).
CountVals == {0, 1, 2, 101, 255}

\* Values of the f-th header field (f = 0..3: x, y, width, height).
HdrFields(f) ==
  CASE f = 0 -> {0, 239, 65535}
    [] f = 1 -> {0, 240, 65535}
    [] f = 2 -> {0, 1, 2, 33, 256}
    [] OTHER -> {0, 1, 2, 33}

\* Values of the k-th header byte (k = 0..7, each field high byte first),
\* given the byte before it.
HdrVals(k, before) ==
  IF k % 2 = 0
  THEN {v \div 256 : v \in HdrFields(k \div 2)}
  ELSE {v % 256 : v \in {u \in HdrFields(k \div 2) : u \div 256 = before}}

\* Pixels on the wire, as <<first byte, second byte>>.
WirePixels == {<<0, 255>>, <<18, 52>>}

\* ------------------------------------------------------------- state
VARIABLES
  pc,             \* position of the handler in loop()
  client,         \* "none", "pending" (connected, not accepted), "open", "stopped"
  avail,          \* client.available(): bytes received and not yet read
  expired,        \* millis() >= timeout, for the deadline now armed
  numRegions,     \* uint8_t numRegions; -1 before it is read
  i,              \* region index of the for loop
  metaData,       \* bytes of metaData[8] filled so far by readExactBytes
  x, y, width, height,
  row,            \* row index of the row loop
  received,       \* readExactBytes: received
  length,         \* readExactBytes: length
  dest,           \* readExactBytes: buffer ("meta" = metaData, "row" = byteBuffer)
  updateBuffer,   \* bytes of updateBuffer that were written (others are 0)
  written,        \* bytes written to the client
  sink,           \* calls of tft.pushImage, in order
  serial,         \* last line printed on Serial
  consumed,       \* number of client.read() calls that returned a byte
  metaReads,      \* number of readExactBytes(client, metaData, 8) calls
  rowReads,       \* number of readExactBytes(client, byteBuffer, width * 2) calls
  payload,        \* wire bytes read for the current region, in arrival order
  headers,        \* headers parsed so far, in order
  arrivedInTime,  \* bytes that became available to the armed wait before it expired
  everAvailable,  \* some byte became available on this connection
  backlog,        \* connections established behind the one accept() returns next
  active          \* connections accept() returned that were not stopped yet

vars == <<pc, client, avail, expired, numRegions, i, metaData, x, y, width,
          height, row, received, length, dest, updateBuffer, written, sink,
          serial, consumed, metaReads, rowReads, payload, headers,
          arrivedInTime, everAvailable, backlog, active>>

locals == <<numRegions, i, metaData, x, y, width, height, row>>
reader == <<received, length, dest>>
calls == <<metaReads, rowReads>>
outputs == <<written, sink, serial>>
ghosts == <<payload, headers, everAvailable>>
server == <<backlog, active>>

\* ------------------------------------------------------------ memory
\* Byte k of updateBuffer (a global: zero until written).
Mem(buf, k) == IF k \in DOMAIN buf THEN buf[k] ELSE 0

Store(buf, k, b) ==
  [j \in (DOMAIN buf) \cup {k} |-> IF j = k THEN b ELSE buf[j]]

\* updateBuffer[k] as the uint16_t the little-endian core reads.
Pixel(buf, k) == Mem(buf, 2 * k) + 256 * Mem(buf, 2 * k + 1)

\* Mutant: the row offset ignores the width of the region.
RowBaseNoWidth(r, w) == 2 * r

\* Byte offset in updateBuffer of byteBuffer[0] for a row.
RowBase(r, w) == 2 * (r * w)

\* The swap loop of one row: for j in [from, w) swap byteBuffer[2j], [2j+1].
\* The pairs are disjoint, so every byte of the range takes the value its
\* partner had before the loop.
SwapBytes(buf, base, from, w) ==
  LET range == (base + 2 * from)..(base + 2 * w - 1)
      partner(k) == IF (k - base) % 2 = 0 THEN k + 1 ELSE k - 1
  IN [k \in (DOMAIN buf) \cup range |->
        IF k \in range THEN Mem(buf, partner(k)) ELSE buf[k]]

\* Mutant: the bytes of the row are left in wire order.
SwapRowNone(buf, r, w) == buf

\* for (j < width) { temp = byteBuffer[j*2]; ... } on the row just read.
SwapRowBytes(buf, r, w) == SwapBytes(buf, RowBase(r, w), 0, w)

\* Mutant: the low byte is taken first.
Le16(hi, lo) == (lo * 256 + hi) % 65536

\* uint16_t v = (hi << 8) | lo
Be16(hi, lo) == (hi * 256 + lo) % 65536

\* Mutant: a count of zero is accepted.
InvalidCountNoZero(n) == n > MAX_REGIONS

\* if (numRegions == 0 || numRegions > 100)
InvalidCount(n) == n = 0 \/ n > MAX_REGIONS

\* Mutant: the right edge of the region is not checked, only its origin.
InvalidDimensionsNoWidth(px, py, w, h) ==
  \/ px > DISPLAY_WIDTH
  \/ py + h > DISPLAY_HEIGHT
  \/ w > MAX_CHUNK_SIZE
  \/ h > MAX_CHUNK_SIZE

\* Mutant: the sums are computed in 16 bits.
InvalidDimensionsWrap16(px, py, w, h) ==
  \/ (px + w) % 65536 > DISPLAY_WIDTH
  \/ (py + h) % 65536 > DISPLAY_HEIGHT
  \/ w > MAX_CHUNK_SIZE
  \/ h > MAX_CHUNK_SIZE

\* Mutant: the width of the region is not compared with MAX_CHUNK_SIZE.
InvalidDimensionsNoChunk(px, py, w, h) ==
  \/ px + w > DISPLAY_WIDTH
  \/ py + h > DISPLAY_HEIGHT
  \/ h > MAX_CHUNK_SIZE

\* The operands are promoted to int: the sums do not wrap.
InvalidDimensions(px, py, w, h) ==
  \/ px + w > DISPLAY_WIDTH
  \/ py + h > DISPLAY_HEIGHT
  \/ w > MAX_CHUNK_SIZE
  \/ h > MAX_CHUNK_SIZE

\* The pixels tft.pushImage(x, y, w, h, updateBuffer) reads.
Image(buf, w, h) == [k \in 1..(w * h) |-> Pixel(buf, k - 1)]

\* -------------------------------------------------------------- init
Init ==
  /\ pc = "accept"
  /\ client = "none"
  /\ avail = 0
  /\ expired = FALSE
  /\ numRegions = -1
  /\ i = 0
  /\ metaData = <<>>
  /\ x = 0 /\ y = 0 /\ width = 0 /\ height = 0
  /\ row = 0
  /\ received = 0 /\ length = 0 /\ dest = "none"
  /\ updateBuffer = <<>>
  /\ written = <<>>
  /\ sink = <<>>
  /\ serial = ""
  /\ consumed = 0
  /\ metaReads = 0
  /\ rowReads = 0
  /\ payload = <<>>
  /\ headers = <<>>
  /\ arrivedInTime = 0
  /\ everAvailable = FALSE
  /\ backlog = 0
  /\ active = 0


\* ---------------------------------------------------------- helpers
\* "OK" as client.write sends it.
AckBytes == <<79, 75>>

\* The sketch is suspended here: the network stack runs.
SuspendPoints == {"accept", "delay", "rxYield", "paintYield", "ackDelay"}

\* A deadline (timeout = millis() + ...) is being polled.
Armed == pc \in {"wait", "delay", "rx", "rxYield"}

\* Mutant: the wait loop does not look at the deadline.
WaitConditionNoTimeout(av, ex) == av = 0

\* Mutant: the wait loop goes on while the deadline has not elapsed.
WaitConditionOr(av, ex) == av = 0 \/ ~ex

\* while (!client.available() && millis() < timeout)
WaitCondition(av, ex) == av = 0 /\ ~ex

\* Mutant: the read loop does not look at the deadline.
ReadConditionNoTimeout(rc, len, ex) == rc < len

\* Mutant: the read loop takes one byte more than asked.
ReadConditionLe(rc, len, ex) == rc <= len /\ ~ex

\* while (received < length && millis() < timeout)
ReadCondition(rc, len, ex) == rc < len /\ ~ex

\* Mutant: a read of zero bytes is reported as a failure.
ReadResultNonEmpty(rc, len) == rc = len /\ len > 0

\* return received == length;
ReadResult(rc, len) == rc = len

\* client.stop(); return;
StopClient(msg) ==
  /\ client' = "stopped"
  /\ avail' = 0
  /\ expired' = FALSE
  /\ serial' = msg
  /\ active' = active - 1
  /\ backlog' = backlog
  /\ pc' = "closed"

\* readExactBytes(client, buffer, len): entry, up to the first loop test.
CallRead(buffer, len) ==
  /\ received' = 0
  /\ length' = len
  /\ dest' = buffer
  /\ expired' = FALSE
  /\ arrivedInTime' = avail
  /\ metaReads' = IF buffer = "meta" THEN metaReads + 1 ELSE metaReads
  /\ rowReads' = IF buffer = "row" THEN rowReads + 1 ELSE rowReads
  /\ pc' = "rx"

\* The values the byte read next can have.
NextBytes ==
  IF dest = "meta"
  THEN HdrVals(received, IF received % 2 = 1 THEN metaData[received] ELSE 0)
  ELSE IF received % 2 = 0 THEN {p[1] : p \in WirePixels}
  ELSE {p[2] : p \in {q \in WirePixels :
                        q[1] = Mem(updateBuffer, RowBase(row, width) + received - 1)}}

\* ------------------------------------------------------ environment
\* A client connects; the connection waits for server.accept().
Connect ==
  /\ pc = "accept"
  /\ client = "none"
  /\ client' = "pending"
  /\ UNCHANGED <<pc, avail, expired, locals, reader, updateBuffer, outputs,
                 consumed, calls, ghosts, arrivedInTime,
                 server>>

\* One more byte of the client becomes available.
Send ==
  /\ client \in {"pending", "open"}
  /\ pc \in SuspendPoints
  /\ avail < MaxAvail
  /\ avail' = avail + 1
  /\ everAvailable' = TRUE
  /\ arrivedInTime' = IF Armed /\ ~expired THEN arrivedInTime + 1 ELSE arrivedInTime
  /\ UNCHANGED <<pc, client, expired, locals, reader, updateBuffer, outputs,
                 consumed, calls, payload, headers,
                 server>>

\* millis() reaches the timeout of the armed deadline.
Expire ==
  /\ Armed
  /\ ~expired
  /\ expired' = TRUE
  /\ UNCHANGED <<pc, client, avail, locals, reader, updateBuffer, outputs,
                 consumed, calls, ghosts, arrivedInTime,
                 server>>

\* ---------------------------------------------------------- handler
\* WiFiClient client = server.accept(); ... timeout = millis() + 5000;
Accept ==
  /\ pc = "accept"
  /\ client = "pending"
  /\ client' = "open"
  /\ serial' = "New client connected"
  /\ expired' = FALSE
  /\ arrivedInTime' = avail
  /\ pc' = "wait"
  /\ active' = active + 1
  /\ UNCHANGED <<avail, locals, reader, updateBuffer, written, sink, consumed,
                 calls, ghosts, backlog>>

\* The test of the wait loop.
WaitLoop ==
  /\ pc = "wait"
  /\ pc' = IF WaitCondition(avail, expired) THEN "delay" ELSE "waited"
  /\ UNCHANGED <<client, avail, expired, locals, reader, updateBuffer, outputs,
                 consumed, calls, ghosts, arrivedInTime,
                 server>>

\* delay(10) returns.
Delay ==
  /\ pc = "delay"
  /\ pc' = "wait"
  /\ UNCHANGED <<client, avail, expired, locals, reader, updateBuffer, outputs,
                 consumed, calls, ghosts, arrivedInTime,
                 server>>

\* Mutant: the timeout branch prints but does not return; client.read()
\* then yields -1, stored as 255.
ClientTimeoutNoReturn ==
  /\ pc = "waited"
  /\ avail = 0
  /\ numRegions' = 255
  /\ StopClient("Invalid number of regions")
  /\ UNCHANGED <<i, metaData, x, y, width, height, row, reader, updateBuffer,
                 written, sink, consumed, calls, ghosts, arrivedInTime>>

\* Mutant: the timeout branch returns without client.stop().
ClientTimeoutNoStop ==
  /\ pc = "waited"
  /\ avail = 0
  /\ serial' = "Client timeout"
  /\ expired' = FALSE
  /\ pc' = "closed"
  /\ UNCHANGED <<client, avail, locals, reader, updateBuffer, written, sink,
                 consumed, calls, ghosts, arrivedInTime, server>>

\* if (!client.available()) { "Client timeout"; client.stop(); return; }
ClientTimeout ==
  /\ pc = "waited"
  /\ avail = 0
  /\ StopClient("Client timeout")
  /\ UNCHANGED <<locals, reader, updateBuffer, written, sink, consumed, calls,
                 ghosts, arrivedInTime>>

\* numRegions = client.read(); and the sanity check.
ReadNumRegions ==
  /\ pc = "waited"
  /\ avail > 0
  /\ \E n \in CountVals :
       /\ numRegions' = n
       /\ consumed' = consumed + 1
       /\ IF InvalidCount(n)
          THEN /\ StopClient("Invalid number of regions")
               /\ i' = i
          ELSE /\ avail' = avail - 1
               /\ serial' = "Receiving update regions"
               /\ i' = 0
               /\ pc' = "region"
               /\ UNCHANGED <<client, expired, server>>
  /\ UNCHANGED <<metaData, x, y, width, height, row, reader, updateBuffer,
                 written, sink, calls, ghosts, arrivedInTime>>

\* for (i < numRegions): readExactBytes(client, metaData, 8) is called.
ReadMetaData ==
  /\ pc = "region"
  /\ i < numRegions
  /\ metaData' = <<>>
  /\ CallRead("meta", META_LEN)
  /\ UNCHANGED <<client, avail, numRegions, i, x, y, width, height, row,
                 updateBuffer, outputs, consumed, ghosts,
                 server>>

\* One turn of the loop of readExactBytes, up to yield().
ReadByte ==
  /\ pc = "rx"
  /\ ReadCondition(received, length, expired)
  /\ IF avail > 0
     THEN \E b \in NextBytes :
            /\ avail' = avail - 1
            /\ consumed' = consumed + 1
            /\ received' = received + 1
            /\ IF dest = "meta"
               THEN /\ metaData' = Append(metaData, b)
                    /\ UNCHANGED <<updateBuffer, payload>>
               ELSE /\ updateBuffer' =
                         Store(updateBuffer, RowBase(row, width) + received, b)
                    /\ payload' = Append(payload, b)
                    /\ UNCHANGED metaData
     ELSE UNCHANGED <<avail, consumed, received, metaData, updateBuffer, payload>>
  /\ pc' = "rxYield"
  /\ UNCHANGED <<client, expired, numRegions, i, x, y, width, height, row,
                 length, dest, outputs, calls, headers, everAvailable,
                 arrivedInTime,
                 server>>

\* yield() returns.
Yield ==
  /\ pc = "rxYield"
  /\ pc' = "rx"
  /\ UNCHANGED <<client, avail, expired, locals, reader, updateBuffer, outputs,
                 consumed, calls, ghosts, arrivedInTime,
                 server>>

\* readExactBytes(metaData) returned false.
MetaDataFailed ==
  /\ pc = "rx"
  /\ dest = "meta"
  /\ ~ReadCondition(received, length, expired)
  /\ ~ReadResult(received, length)
  /\ StopClient("Failed to read region metadata")
  /\ UNCHANGED <<locals, reader, updateBuffer, written, sink, consumed, calls,
                 ghosts, arrivedInTime>>

\* readExactBytes(metaData) returned true: parse and validate the header.
ParseHeader ==
  /\ pc = "rx"
  /\ dest = "meta"
  /\ ~ReadCondition(received, length, expired)
  /\ ReadResult(received, length)
  /\ LET px == Be16(metaData[1], metaData[2])
         py == Be16(metaData[3], metaData[4])
         w == Be16(metaData[5], metaData[6])
         h == Be16(metaData[7], metaData[8])
     IN /\ x' = px /\ y' = py /\ width' = w /\ height' = h
        /\ headers' = Append(headers, <<px, py, w, h>>)
        /\ IF InvalidDimensions(px, py, w, h)
           THEN /\ StopClient("Invalid region dimensions")
                /\ UNCHANGED <<row, payload>>
           ELSE /\ row' = 0
                /\ payload' = <<>>
                /\ expired' = FALSE
                /\ pc' = "rows"
                /\ UNCHANGED <<client, avail, serial, server>>
  /\ UNCHANGED <<numRegions, i, metaData, reader, updateBuffer, written, sink,
                 consumed, calls, everAvailable, arrivedInTime>>

\* for (row < height): readExactBytes(client, byteBuffer, width * 2) is called.
ReadRow ==
  /\ pc = "rows"
  /\ row < height
  /\ CallRead("row", width * 2)
  /\ UNCHANGED <<client, avail, locals, updateBuffer, outputs, consumed, ghosts,
                 server>>

\* Mutant: a failed row is skipped and the loop goes on with the next region.
RowFailedSkip ==
  /\ pc = "rx"
  /\ dest = "row"
  /\ ~ReadCondition(received, length, expired)
  /\ ~ReadResult(received, length)
  /\ serial' = "Failed to read row"
  /\ expired' = FALSE
  /\ i' = i + 1
  /\ pc' = "region"
  /\ UNCHANGED <<client, avail, numRegions, metaData, x, y, width, height, row,
                 reader, updateBuffer, written, sink, consumed, calls, ghosts,
                 arrivedInTime,
                 server>>

\* readExactBytes(byteBuffer) returned false.
RowFailed ==
  /\ pc = "rx"
  /\ dest = "row"
  /\ ~ReadCondition(received, length, expired)
  /\ ~ReadResult(received, length)
  /\ StopClient("Failed to read row")
  /\ UNCHANGED <<locals, reader, updateBuffer, written, sink, consumed, calls,
                 ghosts, arrivedInTime>>

\* readExactBytes(byteBuffer) returned true: swap the bytes of the row.
SwapRow ==
  /\ pc = "rx"
  /\ dest = "row"
  /\ ~ReadCondition(received, length, expired)
  /\ ReadResult(received, length)
  /\ updateBuffer' = SwapRowBytes(updateBuffer, row, width)
  /\ row' = row + 1
  /\ expired' = FALSE
  /\ pc' = "rows"
  /\ UNCHANGED <<client, avail, numRegions, i, metaData, x, y, width, height,
                 reader, outputs, consumed, calls, ghosts, arrivedInTime,
                 server>>

\* Mutant: an empty region is not handed to the display.
PushImageSkipEmpty ==
  /\ pc = "rows"
  /\ ~(row < height)
  /\ sink' = IF width * height = 0 THEN sink
             ELSE Append(sink, [x |-> x, y |-> y, w |-> width, h |-> height,
                                data |-> Image(updateBuffer, width, height)])
  /\ pc' = "paintYield"
  /\ UNCHANGED <<client, avail, expired, locals, reader, updateBuffer, written,
                 serial, consumed, calls, ghosts, arrivedInTime,
                 server>>

\* Mutant: the region is painted before its rows are read.
PushImageEarly ==
  /\ pc = "rows"
  /\ sink' = Append(sink, [x |-> x, y |-> y, w |-> width, h |-> height,
                           data |-> Image(updateBuffer, width, height)])
  /\ pc' = "paintYield"
  /\ UNCHANGED <<client, avail, expired, locals, reader, updateBuffer, written,
                 serial, consumed, calls, ghosts, arrivedInTime,
                 server>>

\* tft.pushImage(x, y, width, height, updateBuffer);
PushImage ==
  /\ pc = "rows"
  /\ ~(row < height)
  /\ sink' = Append(sink, [x |-> x, y |-> y, w |-> width, h |-> height,
                           data |-> Image(updateBuffer, width, height)])
  /\ pc' = "paintYield"
  /\ UNCHANGED <<client, avail, expired, locals, reader, updateBuffer, written,
                 serial, consumed, calls, ghosts, arrivedInTime,
                 server>>

\* yield() after the paint returns; i++.
NextRegion ==
  /\ pc = "paintYield"
  /\ i' = i + 1
  /\ pc' = "region"
  /\ UNCHANGED <<client, avail, expired, numRegions, metaData, x, y, width,
                 height, row, reader, updateBuffer, outputs, consumed, calls,
                 ghosts, arrivedInTime,
                 server>>

\* Mutant: the acknowledgment is written as soon as one region is painted.
SendAckAfterFirst ==
  /\ pc = "region"
  /\ i >= 1
  /\ written' = written \o AckBytes
  /\ pc' = "ackDelay"
  /\ UNCHANGED <<client, avail, expired, locals, reader, updateBuffer, sink,
                 serial, consumed, calls, ghosts, arrivedInTime,
                 server>>

\* client.write("OK"); delay(10) begins.
SendAck ==
  /\ pc = "region"
  /\ ~(i < numRegions)
  /\ written' = written \o AckBytes
  /\ pc' = "ackDelay"
  /\ UNCHANGED <<client, avail, expired, locals, reader, updateBuffer, sink,
                 serial, consumed, calls, ghosts, arrivedInTime,
                 server>>

\* delay(10) after the acknowledgment returns.
AckDelay ==
  /\ pc = "ackDelay"
  /\ pc' = "drain"
  /\ UNCHANGED <<client, avail, expired, locals, reader, updateBuffer, outputs,
                 consumed, calls, ghosts, arrivedInTime,
                 server>>

\* while (client.available()) client.read();
Drain ==
  /\ pc = "drain"
  /\ avail > 0
  /\ avail' = avail - 1
  /\ consumed' = consumed + 1
  /\ UNCHANGED <<pc, client, expired, locals, reader, updateBuffer, outputs,
                 calls, ghosts, arrivedInTime,
                 server>>

\* The drain loop ends; client.stop().
Stop ==
  /\ pc = "drain"
  /\ avail = 0
  /\ client' = "stopped"
  /\ active' = active - 1
  /\ pc' = "closed"
  /\ UNCHANGED <<avail, expired, locals, reader, updateBuffer, outputs,
                 consumed, calls, ghosts, arrivedInTime, backlog>>

Handler ==
  \/ Accept \/ WaitLoop \/ Delay \/ ClientTimeout \/ ReadNumRegions
  \/ ReadMetaData \/ ReadByte \/ Yield \/ MetaDataFailed \/ ParseHeader
  \/ ReadRow \/ RowFailed \/ SwapRow \/ PushImage \/ NextRegion
  \/ SendAck \/ AckDelay \/ Drain \/ Stop

Next == Connect \/ Send \/ Expire \/ Handler

Spec == Init /\ [][Next]_vars

\* The handler keeps running and the clock keeps advancing.
FairSpec == Spec /\ WF_vars(Handler) /\ WF_vars(Expire)


\* ------------------------------------------------- geometry of a region
\* The same handler, followed from the first header of a session through
\* the rows of that region when every byte of a row arrives in time, for
\* all the widths and heights up to MaxDim.

\* Values of the f-th header field (x, y, width, height) in these runs.
GeomFields(f) ==
  CASE f = 0 -> {0, 209}
    [] f = 1 -> {0, 209}
    [] OTHER -> 0..MaxDim

\* The pixel repeated on the wire in these runs.
GeomPixel == <<18, 52>>

\* The loop of readExactBytes when no turn finds the stream empty:
\* buffer[received++] = client.read() for received in [0, len).
ReadAll(buf, base, len) ==
  LET range == base..(base + len - 1)
  IN [k \in (DOMAIN buf) \cup range |->
        IF k \in range THEN GeomPixel[((k - base) % 2) + 1] ELSE buf[k]]

\* The count byte 1 was read and the 8 bytes of the first header were
\* received: readExactBytes is at its loop test.
GeomInit ==
  /\ pc = "rx"
  /\ client = "open"
  /\ avail = 0
  /\ expired = FALSE
  /\ numRegions = 1
  /\ i = 0
  /\ \E px \in GeomFields(0), py \in GeomFields(1),
        w \in GeomFields(2), h \in GeomFields(3) :
       metaData = <<px \div 256, px % 256, py \div 256, py % 256,
                    w \div 256, w % 256, h \div 256, h % 256>>
  /\ x = 0 /\ y = 0 /\ width = 0 /\ height = 0
  /\ row = 0
  /\ received = META_LEN /\ length = META_LEN /\ dest = "meta"
  /\ updateBuffer = <<>>
  /\ written = <<>>
  /\ sink = <<>>
  /\ serial = "Receiving update regions"
  /\ consumed = 1 + META_LEN
  /\ metaReads = 1
  /\ rowReads = 0
  /\ payload = <<>>
  /\ headers = <<>>
  /\ arrivedInTime = 0
  /\ everAvailable = TRUE
  /\ backlog = 0
  /\ active = 1

\* One turn of the row loop whose read succeeds: readExactBytes(client,
\* byteBuffer, width * 2) fills the row, then the bytes are swapped.
FillRow ==
  /\ pc = "rows"
  /\ row < height
  /\ updateBuffer' =
       SwapRowBytes(ReadAll(updateBuffer, RowBase(row, width), width * 2),
                    row, width)
  /\ received' = width * 2
  /\ length' = width * 2
  /\ dest' = "row"
  /\ rowReads' = rowReads + 1
  /\ consumed' = consumed + width * 2
  /\ payload' = payload \o [k \in 1..(width * 2) |-> GeomPixel[((k - 1) % 2) + 1]]
  /\ row' = row + 1
  /\ UNCHANGED <<pc, client, avail, expired, numRegions, i, metaData, x, y,
                 width, height, outputs, metaReads, headers, everAvailable,
                 arrivedInTime,
                 server>>

GeomNext == ParseHeader \/ FillRow \/ PushImage

GeomSpec == GeomInit /\ [][GeomNext]_vars


\* ------------------------------------------------ connection after connection
\* A client completes its connection while the sketch holds another one:
\* the connection waits in the server until a later accept().
ConnectBusy ==
  /\ client # "none"
  /\ pc \in SuspendPoints \cup {"closed"}
  /\ backlog < MaxBacklog
  /\ backlog' = backlog + 1
  /\ UNCHANGED <<pc, client, avail, expired, locals, reader, updateBuffer,
                 outputs, consumed, calls, ghosts, arrivedInTime, active>>

\* loop() returns and is called again: the locals are gone, updateBuffer is
\* a global and keeps its bytes, and accept() will return the connection
\* that waited longest, if there is one.  The records kept per connection
\* start again.
LoopReturn ==
  /\ pc = "closed"
  /\ pc' = "accept"
  /\ client' = IF backlog > 0 THEN "pending" ELSE "none"
  /\ backlog' = IF backlog > 0 THEN backlog - 1 ELSE 0
  /\ avail' = 0
  /\ expired' = FALSE
  /\ numRegions' = -1
  /\ i' = 0
  /\ metaData' = <<>>
  /\ x' = 0 /\ y' = 0 /\ width' = 0 /\ height' = 0
  /\ row' = 0
  /\ received' = 0 /\ length' = 0 /\ dest' = "none"
  /\ written' = <<>>
  /\ sink' = <<>>
  /\ consumed' = 0
  /\ metaReads' = 0
  /\ rowReads' = 0
  /\ payload' = <<>>
  /\ headers' = <<>>
  /\ arrivedInTime' = 0
  /\ everAvailable' = FALSE
  /\ UNCHANGED <<updateBuffer, serial, active>>

\* The clients of these runs send regions of at most one pixel at the
\* origin; a width of 256 is their header that fails validation.
SmallUpdate ==
  /\ \A k \in DOMAIN metaData : metaData[k] \in {0, 1}
  /\ pc = "rows" => width * height <= 1

MultiHandler ==
  \/ Accept \/ WaitLoop \/ Delay \/ ClientTimeout \/ ReadNumRegions
  \/ ReadMetaData \/ (ReadByte /\ SmallUpdate') \/ Yield \/ MetaDataFailed
  \/ (ParseHeader /\ SmallUpdate') \/ ReadRow \/ RowFailed \/ SwapRow
  \/ PushImage \/ NextRegion \/ SendAck \/ AckDelay \/ Drain \/ Stop

MultiNext ==
  Connect \/ ConnectBusy \/ Send \/ Expire \/ MultiHandler \/ LoopReturn

MultiSpec == Init /\ [][MultiNext]_vars


\* ------------------------------------------------------- properties
OK == <<79, 75>>

AbortMessages ==
  {"Client timeout", "Invalid number of regions",
   "Failed to read region metadata", "Invalid region dimensions",
   "Failed to read row"}

RegionFailures ==
  {"Failed to read region metadata", "Invalid region dimensions",
   "Failed to read row"}

\* A header <<x, y, width, height>> that breaks a bound of the protocol.
Violates(hd) ==
  hd[1] + hd[3] > 240 \/ hd[2] + hd[4] > 240 \/ hd[3] > 32 \/ hd[4] > 32

Geometry(call) == <<call.x, call.y, call.w, call.h>>

\* C1: "OK" is written if and only if all N declared regions were decoded
\* and painted: nothing but "OK" is ever written, it is written at most once
\* and only after the paint of region N-1, a closed session whose N regions
\* were all painted has it, and a session closed on an abort path has
\* written no byte.
C1_AckIffAllPainted ==
  /\ written \in {<<>>, OK}
  /\ written # <<>> =>
       /\ numRegions \in 1..100
       /\ Len(sink) = numRegions
       /\ pc \in {"ackDelay", "drain", "closed"}
       /\ serial \notin AbortMessages
  /\ (pc = "closed" /\ numRegions \in 1..100 /\ Len(sink) = numRegions) =>
       written = OK
  /\ (pc = "closed" /\ serial \in AbortMessages) =>
       (written = <<>> /\ client = "stopped")

\* C1 witness: a session of two regions closed after the acknowledgment.
C1_Witness ==
  pc = "closed" /\ numRegions = 2 /\ Len(sink) = 2 /\ written = OK

\* C2: every paint call made so far is inside the display and no larger
\* than the chunk size, and a header that breaks a bound is the last one
\* parsed: the session is closed with "Invalid region dimensions" and the
\* sink holds only the paints of the regions before it.
C2_PaintsInBounds ==
  /\ \A k \in 1..Len(sink) :
       /\ sink[k].x + sink[k].w <= 240
       /\ sink[k].y + sink[k].h <= 240
       /\ sink[k].w <= 32
       /\ sink[k].h <= 32
  /\ \A k \in 1..Len(headers) :
       Violates(headers[k]) =>
         /\ k = Len(headers)
         /\ pc = "closed"
         /\ client = "stopped"
         /\ serial = "Invalid region dimensions"
         /\ Len(sink) = k - 1

\* C2 witness: the second header of a session is 239 + 2 wide; the first
\* region was painted.
C2_Witness ==
  /\ pc = "closed"
  /\ Len(headers) = 2
  /\ headers[2][1] = 239 /\ headers[2][3] = 2
  /\ Len(sink) = 1

C4_InvalidCountAborts ==
  (numRegions # -1 /\ (numRegions = 0 \/ numRegions > 100)) =>
    /\ pc = "closed"
    /\ client = "stopped"
    /\ serial = "Invalid number of regions"
    /\ consumed = 1
    /\ metaReads = 0 /\ rowReads = 0
    /\ headers = <<>>
    /\ sink = <<>>
    /\ written = <<>>

\* C4 witness: a session closed on a count of zero.
C4_Witness == pc = "closed" /\ numRegions = 0

\* C5: a row read consumes only bytes that became available before its
\* deadline, and when fewer than width * 2 bytes of a row did, the session
\* is closed with "Failed to read row": that region is not painted, no
\* later header is read and nothing is written.
C5_ShortRowAborts ==
  /\ (pc \in {"rx", "rxYield"} /\ dest = "row") => received <= arrivedInTime
  /\ (dest = "row" /\ pc \notin {"rx", "rxYield"} /\ arrivedInTime < width * 2) =>
       /\ pc = "closed"
       /\ client = "stopped"
       /\ serial = "Failed to read row"
       /\ written = <<>>
       /\ Len(sink) = i
       /\ metaReads = i + 1
       /\ Len(headers) = i + 1

\* C5 witness: the second region's row got one of its bytes in time, the
\* other one after the deadline.
C5_Witness ==
  /\ pc = "closed"
  /\ serial = "Failed to read row"
  /\ i = 1
  /\ received = 1
  /\ arrivedInTime = 1
  /\ everAvailable


\* The session of the spec's scenario: N = 1, header (0, 0, 2, 1), pixel
\* bytes 0x00 0xFF 0x12 0x34, closed after the acknowledgment.
Scenario ==
  /\ pc = "closed"
  /\ numRegions = 1
  /\ headers = << <<0, 0, 2, 1>> >>
  /\ payload = <<0, 255, 18, 52>>
  /\ Len(sink) = 1

\* C6 as stated: each pixel handed to the sink is b1 * 256 + b0 for wire
\* bytes b0, b1, and the scenario hands it [0xFF00, 0x3412] and answers "OK".
C6_PixelIsSecondByteHigh ==
  /\ pc = "paintYield" =>
       \A m \in 1..(width * height) :
         sink[Len(sink)].data[m] = payload[2 * m] * 256 + payload[2 * m - 1]
  /\ Scenario => (sink[1].data = <<65280, 13330>> /\ written = OK)

\* C6 as amended: each pixel handed to the sink is b0 * 256 + b1 (the swap
\* puts the first wire byte in the high half of the little-endian uint16_t),
\* and the scenario hands it [0x00FF, 0x1234] and answers "OK".
C6_PixelIsFirstByteHigh ==
  /\ pc = "paintYield" =>
       \A m \in 1..(width * height) :
         sink[Len(sink)].data[m] = payload[2 * m - 1] * 256 + payload[2 * m]
  /\ Scenario => (sink[1].data = <<255, 4660>> /\ written = OK)

\* C6 witness: the scenario's session, acknowledged and closed.
C6_Witness == Scenario /\ written = OK /\ Len(sink[1].data) = 2

\* Bytes of the stream taken by the first n painted regions.
RECURSIVE PaintedBytes(_)
PaintedBytes(n) ==
  IF n = 0 THEN 0
  ELSE PaintedBytes(n - 1) + 8 + 2 * (sink[n].w * sink[n].h)

RECURSIVE PaintedRows(_)
PaintedRows(n) == IF n = 0 THEN 0 ELSE PaintedRows(n - 1) + sink[n].h

\* C7: when a session is closed by a failure in region i, the sink was
\* called exactly i times, for the regions 0..i-1 in order; the header of
\* region i was the last one read (i + 1 header reads, no header parsed
\* after it), each row was read at most once, and the bytes consumed are
\* the count, the painted regions and the part of region i read before the
\* failure.
C7_NoRetryNoSkip ==
  (pc = "closed" /\ serial \in RegionFailures) =>
    /\ 0 <= i /\ i < numRegions
    /\ Len(sink) = i
    /\ \A k \in 1..i : Geometry(sink[k]) = headers[k]
    /\ metaReads = i + 1
    /\ Len(headers) <= i + 1
    /\ rowReads = PaintedRows(i) +
                  (IF serial = "Failed to read row" THEN row + 1 ELSE 0)
    /\ consumed = 1 + PaintedBytes(i) +
                  (CASE serial = "Failed to read region metadata" -> received
                     [] serial = "Invalid region dimensions" -> 8
                     [] OTHER -> 8 + 2 * (row * width) + received)

\* C7 witness: the header of the second region stalls after three bytes;
\* the first region stays painted.
C7_Witness ==
  /\ pc = "closed"
  /\ serial = "Failed to read region metadata"
  /\ i = 1
  /\ received = 3
  /\ Len(sink) = 1
  /\ sink[1].w * sink[1].h > 0

\* C8: every accepted connection is eventually stopped.
C8_EventuallyClosed == (client = "open") ~> (client = "stopped")

\* C8 witness: the client sent a byte after its regions; the drain loop is
\* about to discard it.
C8_Witness == pc = "drain" /\ avail > 0 /\ written = OK

\* C9: when no byte became available during the post-accept wait, the
\* session is closed with "Client timeout": no count was read, nothing was
\* consumed, painted or written.
C9_SilentClientTimesOut ==
  (pc \notin {"accept", "wait", "delay", "waited"} /\ ~everAvailable) =>
    /\ pc = "closed"
    /\ client = "stopped"
    /\ serial = "Client timeout"
    /\ numRegions = -1
    /\ consumed = 0
    /\ metaReads = 0
    /\ sink = <<>>
    /\ written = <<>>

\* C9 witness: a session closed by the client timeout.
C9_Witness ==
  pc = "closed" /\ serial = "Client timeout" /\ ~everAvailable /\ avail = 0

\* C10 as stated: the region count is read only if a byte became available
\* before the post-accept deadline elapsed.
C10_CountOnlyIfByteInTime ==
  (numRegions # -1 /\ metaReads = 0) => arrivedInTime >= 1

\* C10 as amended: the count is read only if a byte is available when the
\* wait loop ends, and the session times out only if none ever was; the
\* loop starts no delay(10) once it has seen the deadline elapsed, so the
\* first byte is accepted when it arrives before the deadline or during
\* the delay in which the deadline elapses.
C10_CountOnlyIfAvailableAtLoopEnd ==
  /\ [](/\ numRegions # -1 => everAvailable
        /\ serial = "Client timeout" => (~everAvailable /\ numRegions = -1)
        /\ (pc = "waited" /\ arrivedInTime >= 1) => avail >= 1)
  /\ [][(pc = "wait" /\ expired) => pc' # "delay"]_vars

\* C10 witness: the count was read although the first byte arrived after
\* the deadline.
C10_Witness ==
  numRegions \in 1..100 /\ metaReads = 0 /\ arrivedInTime = 0 /\ pc = "region"


\* A header <<x, y, width, height>> of an empty region.
ZeroArea(hd) == hd[3] = 0 \/ hd[4] = 0

\* C11: a region whose header passes the bounds checks with width = 0 or
\* height = 0 never fails: when it is done only its 8 header bytes were
\* consumed for it, and a session closed by a failure after a valid header
\* failed on a region with width and height above zero.
C11_ZeroAreaIsNoOp ==
  /\ (pc = "paintYield" /\ (width = 0 \/ height = 0)) =>
       /\ payload = <<>>
       /\ consumed = 1 + PaintedBytes(i) + 8
       /\ serial \notin AbortMessages
       /\ client = "open"
  /\ \A k \in 1..Len(headers) :
       (ZeroArea(headers[k]) /\ ~Violates(headers[k])) =>
         ~(pc = "closed" /\ serial \in RegionFailures /\ k = i + 1)
  /\ (pc \in {"rx", "rxYield"} /\ dest = "row" /\ width = 0) => received = 0

\* C11 witness: a session whose only region is 0 wide and 2 high was
\* acknowledged after 9 bytes.
C11_Witness ==
  /\ pc = "ackDelay"
  /\ numRegions = 1
  /\ headers = << <<0, 0, 0, 2>> >>
  /\ consumed = 9
  /\ rowReads = 2
  /\ written = OK

\* C12 as stated: the display is never called for a region with width = 0
\* or height = 0.
C12_NoPaintOfZeroArea ==
  \A k \in 1..Len(sink) : sink[k].w # 0 /\ sink[k].h # 0

\* C12 as amended: a region with width = 0 or height = 0 that passes the
\* bounds checks is handed to the display once, as a rectangle of no pixel;
\* one that fails them is not handed to it.
C12_ZeroAreaPaintsNothing ==
  /\ \A k \in 1..Len(sink) :
       (sink[k].w = 0 \/ sink[k].h = 0) => sink[k].data = <<>>
  /\ \A k \in 1..Len(headers) :
       ZeroArea(headers[k]) =>
         IF Violates(headers[k])
         THEN Len(sink) < k
         ELSE \/ Len(sink) >= k /\ Geometry(sink[k]) = headers[k]
              \/ k = Len(headers) /\ pc \in {"rows", "rx", "rxYield"}

\* C12 witness: the display was called with a rectangle 0 wide and 2 high.
C12_Witness ==
  /\ Len(sink) = 1
  /\ sink[1].w = 0 /\ sink[1].h = 2
  /\ pc = "paintYield"

\* C13: the paint of region i comes after all its rows were read and
\* swapped and before the header of region i + 1 is read; the number of
\* paints is the number of regions done and never above N; after the paint
\* of region N - 1 come the acknowledgment, the drain and the close, in
\* that order.
C13_StepsInOrder ==
  /\ [](/\ Len(sink) = (IF pc = "paintYield" THEN i + 1 ELSE i)
        /\ numRegions \in 1..100 => Len(sink) <= numRegions
        /\ metaReads \in {Len(sink), Len(sink) + 1}
        /\ pc = "paintYield" => metaReads = Len(sink)
        /\ rowReads >= PaintedRows(Len(sink))
        /\ pc \in {"ackDelay", "drain"} => (written = OK /\ client = "open")
        /\ written = OK => Len(sink) = numRegions)
  /\ [][/\ Len(sink') > Len(sink) =>
             /\ Len(sink') = Len(sink) + 1
             /\ row = height
             /\ rowReads = PaintedRows(Len(sink)) + height
             /\ Len(payload) = 2 * (width * height)
             /\ metaReads = Len(sink) + 1
             /\ written = <<>>
        /\ metaReads' > metaReads => (metaReads = Len(sink) /\ pc = "region")
        /\ written' # written => (Len(sink) = numRegions /\ pc' = "ackDelay")
        /\ (pc' = "drain" /\ pc # "drain") => pc = "ackDelay"
        /\ (pc' = "closed" /\ written = OK) => (pc = "drain" /\ avail = 0)]_vars

\* C13 witness: the second of two regions, of two rows, was just painted.
C13_Witness ==
  /\ pc = "paintYield"
  /\ numRegions = 2
  /\ Len(sink) = 2
  /\ height = 2 /\ width = 1
  /\ rowReads = sink[1].h + 2

\* C14: readExactBytes never takes more than length bytes, takes only
\* bytes that became available before its deadline and none once it has
\* seen the deadline elapsed, stores them in arrival order from buffer[0],
\* and returns true exactly when it took length bytes; after a false
\* result the session is closed, so no read is resumed.
C14_ReadExactBytes ==
  /\ [](/\ received <= length
        /\ pc \in {"rx", "rxYield"} => received <= arrivedInTime
        /\ dest = "meta" => Len(metaData) = received
        /\ (pc \in {"rx", "rxYield"} /\ dest = "row") =>
             \A k \in 0..(received - 1) :
               updateBuffer[2 * (row * width) + k] =
                 payload[2 * (row * width) + k + 1]
        /\ (dest # "none" /\ pc \notin {"rx", "rxYield"}) =>
             IF serial \in {"Failed to read region metadata", "Failed to read row"}
             THEN pc = "closed" /\ received < length
             ELSE received = length)
  /\ [][/\ (pc \in {"rx", "rxYield"} /\ consumed' # consumed) =>
             (~expired /\ consumed' = consumed + 1 /\ received' = received + 1)
        /\ (pc \in {"rx", "rxYield"} /\ expired) => received' = received
        /\ pc = "closed" => pc' = "closed"]_vars

\* C14 witness: a header read gave up after the deadline with five bytes
\* stored.
C14_Witness ==
  /\ pc = "closed"
  /\ serial = "Failed to read region metadata"
  /\ received = 5
  /\ Len(metaData) = 5
  /\ arrivedInTime >= 5


\* C16: a header whose x + width or y + height reaches 65536 is rejected:
\* it is the last one parsed, the session is closed with "Invalid region
\* dimensions" and the region is not painted.
C16_NoWrapAround ==
  \A k \in 1..Len(headers) :
    (headers[k][1] + headers[k][3] >= 65536 \/ headers[k][2] + headers[k][4] >= 65536) =>
      /\ k = Len(headers)
      /\ pc = "closed"
      /\ client = "stopped"
      /\ serial = "Invalid region dimensions"
      /\ Len(sink) = k - 1

\* C16 witness: after one painted region, a header with x = 65535 and
\* width = 1 (a sum of 0 in 16 bits) and y = 65535, height = 1 was rejected.
C16_Witness ==
  /\ pc = "closed"
  /\ Len(headers) = 2
  /\ headers[2] = <<65535, 65535, 1, 1>>
  /\ Len(sink) = 1

\* C17: the bytes consumed are the count byte, then for every region its 8
\* header bytes followed by its 2 * width * height payload bytes: a header
\* read starts right after the payload of the region before, the
\* acknowledgment is written after 1 + sum (8 + 2 * width * height) bytes,
\* and the header is x, y, width, height, each with its high byte first.
C17_Framing ==
  /\ pc = "ackDelay" => consumed = 1 + PaintedBytes(numRegions)
  /\ (pc \in {"rx", "rxYield"} /\ dest = "meta") =>
       consumed = 1 + PaintedBytes(i) + received
  /\ (pc \in {"rx", "rxYield"} /\ dest = "row") =>
       consumed = 1 + PaintedBytes(i) + 8 + 2 * (row * width) + received
  /\ (Len(headers) = metaReads /\ metaReads >= 1) =>
       /\ Len(metaData) = 8
       /\ headers[Len(headers)] =
            << metaData[1] * 256 + metaData[2], metaData[3] * 256 + metaData[4],
               metaData[5] * 256 + metaData[6], metaData[7] * 256 + metaData[8] >>

\* C17 witness: two regions, 2 x 2 at (0, 0) and 1 x 2 at (239, 0), were
\* acknowledged after 1 + (8 + 8) + (8 + 4) bytes.
C17_Witness ==
  /\ pc = "ackDelay"
  /\ headers = << <<0, 0, 2, 2>>, <<239, 0, 1, 2>> >>
  /\ consumed = 29
  /\ metaData = <<0, 239, 0, 0, 0, 1, 0, 2>>

\* C15: every byte written into updateBuffer, by the row reads and by the
\* byte swaps, lies inside it (pixel index below 1024), and for a header
\* that passed validation row * width + j < MAX_CHUNK_SIZE * MAX_CHUNK_SIZE
\* for every row < height and j < width.
C15_WritesInsideBuffer ==
  /\ DOMAIN updateBuffer \subseteq 0..(BufBytes - 1)
  /\ \A k \in DOMAIN updateBuffer : k \div 2 < MAX_CHUNK_SIZE * MAX_CHUNK_SIZE
  /\ pc = "rows" =>
       \A r \in 0..(height - 1) : \A j \in 0..(width - 1) :
         r * width + j < MAX_CHUNK_SIZE * MAX_CHUNK_SIZE

\* C15 witness: a region of 32 x 32 pixels was received whole: the last
\* byte of updateBuffer was written, and the region was painted.
C15_Witness ==
  /\ pc = "paintYield"
  /\ width = MAX_CHUNK_SIZE /\ height = MAX_CHUNK_SIZE
  /\ DOMAIN updateBuffer = 0..(BufBytes - 1)
  /\ updateBuffer[BufBytes - 1] = GeomPixel[1]
  /\ Len(sink) = 1 /\ Len(sink[1].data) = MAX_CHUNK_SIZE * MAX_CHUNK_SIZE

\* C18: at most one accepted connection is not yet stopped; accept() hands
\* out a connection only when the one before it was stopped, and loop()
\* returns only with its connection stopped; updateBuffer is written only
\* for the open connection, inside the row being read of the one region
\* being decoded (its header is the last one read, it is not yet painted,
\* every region before it is), however many connections wait meanwhile.
C18_OneConnectionAtATime ==
  /\ [](active = IF client = "open" THEN 1 ELSE 0)
  /\ [][(pc = "accept" /\ pc' = "wait") => (active = 0 /\ active' = 1)]_vars
  /\ [][(pc = "closed" /\ pc' = "accept") =>
          (client = "stopped" /\ active = 0)]_vars
  /\ [][updateBuffer' # updateBuffer =>
          /\ client = "open" /\ active = 1
          /\ pc = "rx" /\ dest = "row"
          /\ metaReads = i + 1 /\ Len(headers) = i + 1 /\ Len(sink) = i
          /\ \A k \in DOMAIN updateBuffer' :
               Mem(updateBuffer', k) # Mem(updateBuffer, k) =>
                 /\ k >= RowBase(row, width)
                 /\ k < RowBase(row, width) + width * 2]_vars

\* C18 witness: a later connection is being served (byte 1 of updateBuffer
\* is left from an earlier one: this one has stored only byte 0 so far)
\* while another connection waits in the server.
C18_Witness ==
  /\ pc = "rxYield" /\ dest = "row"
  /\ client = "open" /\ active = 1
  /\ backlog = 1
  /\ i = 0 /\ row = 0 /\ received = 1
  /\ Mem(updateBuffer, 1) # 0

====
